---- MODULE Spec2Model ----
(***************************************************************************)
(* monk-api-fuse: the FUSE adaptation layer (pkg/monkfs), its metadata     *)
(* cache (internal/cache) and the File API client (pkg/monkapi).           *)
(*                                                                         *)
(* Strings are sequences of one-character strings, so that path            *)
(* concatenation, filepath.Dir and slicing are computed, not assumed.      *)
(* Goroutines are the members of Threads; every cache operation is split   *)
(* at its lock acquisition, every remote call at its round trip.           *)
(***************************************************************************)
EXTENDS Integers, Sequences, FiniteSets, TLC

VARIABLES
    now,        \* monotonic clock read by time.Now / time.Since (seconds)
    entries,    \* MetadataCache.entries: path -> CacheEntry
    muReaders,  \* MetadataCache.mu: goroutines holding the read lock
    muWriter,   \* MetadataCache.mu: goroutine holding the write lock, or 0
    muPending,  \* MetadataCache.mu: goroutines blocked inside Lock()
    nodes,      \* inode tree: the nodes the host knows (root + looked-up)
    handles,    \* open MonkFileHandle values (their path field)
    pc,         \* per goroutine: position inside its operation
    op,         \* per goroutine: the operation it runs
    arg,        \* per goroutine: the operation's arguments and locals
    ret,        \* per goroutine: the operation's result
    calls,      \* per goroutine: remote round trips issued by the operation
    started,    \* number of operations started so far
    lastSet,    \* history: path -> the last Set not yet invalidated/cleared
    seen,       \* history: what lastSet held when the goroutine ran Get
    pin,        \* pure-function harness: input
    pout        \* pure-function harness: output

vars == <<now, entries, muReaders, muWriter, muPending, nodes, handles,
          pc, op, arg, ret, calls, started, lastSet, seen, pin, pout>>

(***************************************************************************)
(* Bounds of the model                                                     *)
(***************************************************************************)
NumThreads == 2
MaxCalls == 2
MaxTime == 31

Threads == 1..NumThreads

(***************************************************************************)
(* Program constants                                                       *)
(***************************************************************************)
TTL == 30

EACCES == 13
EPERM == 1
ENOENT == 2
EISDIR == 21
EINVAL == 22
EEXIST == 17
EIO == 5

Nil == <<>>

(***************************************************************************)
(* Strings                                                                 *)
(***************************************************************************)
Slash == <<"/">>
Dot == <<".">>
DotDot == <<".", ".">>

\* strings.HasPrefix
HasPrefix(s, prefix) ==
    /\ Len(prefix) <= Len(s)
    /\ SubSeq(s, 1, Len(prefix)) = prefix

\* strings.HasSuffix
HasSuffix(s, suffix) ==
    /\ Len(suffix) <= Len(s)
    /\ SubSeq(s, Len(s) - Len(suffix) + 1, Len(s)) = suffix

\* index of the first "/" of s, or 0
FirstSep(s) ==
    IF \E i \in 1..Len(s) : s[i] = "/"
    THEN CHOOSE i \in 1..Len(s) : s[i] = "/" /\ \A j \in 1..(i - 1) : s[j] # "/"
    ELSE 0

\* index of the last "/" of s, or 0
LastSep(s) ==
    IF \E i \in 1..Len(s) : s[i] = "/"
    THEN CHOOSE i \in 1..Len(s) : s[i] = "/" /\ \A j \in (i + 1)..Len(s) : s[j] # "/"
    ELSE 0

RECURSIVE Components(_)
\* the "/"-separated elements of s, empty ones included
Components(s) ==
    IF FirstSep(s) = 0 THEN <<s>>
    ELSE <<SubSeq(s, 1, FirstSep(s) - 1)>> \o Components(SubSeq(s, FirstSep(s) + 1, Len(s)))

RECURSIVE JoinSep(_)
JoinSep(elems) ==
    IF elems = <<>> THEN <<>>
    ELSE IF Len(elems) = 1 THEN elems[1]
    ELSE elems[1] \o Slash \o JoinSep(Tail(elems))

RECURSIVE CleanElems(_, _, _)
\* path/filepath.Clean's element loop: out is the stack of kept elements
CleanElems(elems, out, rooted) ==
    IF elems = <<>> THEN out
    ELSE LET e == Head(elems)
             rest == Tail(elems)
         IN  IF e = <<>> \/ e = Dot THEN CleanElems(rest, out, rooted)
             ELSE IF e = DotDot
                  THEN IF out # <<>> /\ out[Len(out)] # DotDot
                       THEN CleanElems(rest, SubSeq(out, 1, Len(out) - 1), rooted)
                       ELSE IF rooted THEN CleanElems(rest, out, rooted)
                       ELSE CleanElems(rest, Append(out, e), rooted)
                  ELSE CleanElems(rest, Append(out, e), rooted)

\* path/filepath.Clean
Clean(path) ==
    IF path = <<>> THEN Dot
    ELSE LET rooted == path[1] = "/"
             out == CleanElems(Components(path), <<>>, rooted)
         IN  IF rooted THEN Slash \o JoinSep(out)
             ELSE IF out = <<>> THEN Dot ELSE JoinSep(out)

\* path/filepath.Dir
Dir(path) == Clean(SubSeq(path, 1, LastSep(path)))

(***************************************************************************)
(* internal/cache: MetadataCache                                           *)
(***************************************************************************)

\* CacheEntry
CacheEntry(data, timestamp) == [data |-> data, timestamp |-> timestamp]

\* NewMetadataCache: an empty map
NewMetadataCache == <<>>

\* time.Since(entry.timestamp)
Since(timestamp) == now - timestamp

\* Get with the expiry test written >= instead of >
GetExpiresAtTTL(path) ==
    IF path \notin DOMAIN entries THEN Nil
    ELSE IF Since(entries[path].timestamp) >= TTL THEN Nil
    ELSE entries[path].data

\* Get without the expiry test
GetNoExpiry(path) ==
    IF path \notin DOMAIN entries THEN Nil
    ELSE entries[path].data

\* MetadataCache.Get, the body under the read lock
Get(path) ==
    IF path \notin DOMAIN entries THEN Nil
    ELSE IF Since(entries[path].timestamp) > TTL THEN Nil
    ELSE entries[path].data

\* Set keeping an entry that is already in the map: the first writer wins
SetIfAbsent(path, data) ==
    IF path \in DOMAIN entries THEN entries
    ELSE [p \in DOMAIN entries \cup {path} |->
            IF p = path THEN CacheEntry(data, now) ELSE entries[p]]

\* Set leaving the entry's timestamp at the zero time
SetZeroTime(path, data) ==
    [p \in DOMAIN entries \cup {path} |->
        IF p = path THEN CacheEntry(data, 0) ELSE entries[p]]

\* MetadataCache.Set, the body under the write lock
Set(path, data) ==
    [p \in DOMAIN entries \cup {path} |->
        IF p = path THEN CacheEntry(data, now) ELSE entries[p]]

\* delete(c.entries, path)
Delete(m, keys) == [p \in DOMAIN m \ keys |-> m[p]]

\* the parent loop left out
ParentsNone(parent) == {}

RECURSIVE ParentsWithRoot(_)
\* the parent loop stopping after the root instead of before it
ParentsWithRoot(parent) ==
    IF parent = Dot THEN {}
    ELSE IF parent = Slash THEN {Slash}
    ELSE {parent} \cup ParentsWithRoot(Dir(parent))

RECURSIVE Parents(_)
\* the parents visited by Invalidate's loop, starting at parent
Parents(parent) ==
    IF parent = Slash \/ parent = Dot THEN {}
    ELSE {parent} \cup Parents(Dir(parent))

\* MetadataCache.Invalidate, the body under the write lock
Invalidate(path) == Delete(entries, {path} \cup Parents(Dir(path)))

\* MetadataCache.Clear, the body under the write lock
Clear == NewMetadataCache

(***************************************************************************)
(* pkg/monkapi: payload types                                              *)
(***************************************************************************)

\* "2025-01-01T00:00:00Z"
Ts2025 == <<"2","0","2","5","-","0","1","-","0","1","T","0","0",":","0","0",":","0","0","Z">>
\* "1970-01-01T00:01:00Z"
Ts1970 == <<"1","9","7","0","-","0","1","-","0","1","T","0","0",":","0","1",":","0","0","Z">>
\* "yesterday"
TsBad == <<"y","e","s","t","e","r","d","a","y">>

\* FileMetadata
FileMetadata(size, mtime, ctime, atime, type, perms) ==
    [Size |-> size, ModifiedTime |-> mtime, CreatedTime |-> ctime,
     AccessTime |-> atime, Type |-> type, Permissions |-> perms]

\* StatResponse
StatResponse(type, meta) == [Success |-> TRUE, FileMetadata |-> meta, Type |-> type]

FileStat == StatResponse("file", FileMetadata(42, Ts2025, <<>>, TsBad, "file", "rw-r--r--"))
DirStat == StatResponse("", FileMetadata(0, Ts1970, Ts1970, <<>>, "directory", "rwxr-xr-x"))

\* the snapshots the remote side answers a stat with
StatResponses == {FileStat, DirStat}

(***************************************************************************)
(* uint64 values: four 16-bit limbs, least significant first               *)
(***************************************************************************)
Limb == 65536

\* the limbs of 0 <= n < 2^31
Limbs(n) == <<n % Limb, n \div Limb, 0, 0>>

\* the conversion uint64(n) of a signed n, two's complement for n < 0
Uint64(n) ==
    IF n >= 0 THEN Limbs(n)
    ELSE [i \in 1..4 |-> (Limb - 1) - Limbs((-n) - 1)[i]]

\* carries propagated, the carry out of the top limb dropped (mod 2^64)
Normalize(raw) ==
    LET c1 == raw[1] \div Limb
        c2 == (raw[2] + c1) \div Limb
        c3 == (raw[3] + c2) \div Limb
    IN  <<raw[1] % Limb, (raw[2] + c1) % Limb, (raw[3] + c2) % Limb, (raw[4] + c3) % Limb>>

RECURSIVE Xor(_, _)
\* bitwise exclusive or of two naturals
Xor(a, b) ==
    IF a = 0 THEN b
    ELSE IF b = 0 THEN a
    ELSE 2 * Xor(a \div 2, b \div 2) + ((a + b) % 2)

(***************************************************************************)
(* pkg/monkfs: conversions                                                 *)
(***************************************************************************)
Digits == {"0", "1", "2", "3", "4", "5", "6", "7", "8", "9"}

DigitVal == "0" :> 0 @@ "1" :> 1 @@ "2" :> 2 @@ "3" :> 3 @@ "4" :> 4 @@
            "5" :> 5 @@ "6" :> 6 @@ "7" :> 7 @@ "8" :> 8 @@ "9" :> 9

\* all of s[from..to] are digits
AllDigits(s, from, to) == \A i \in from..to : s[i] \in Digits

RECURSIVE Atoi(_, _, _)
\* the decimal number written at s[from..to]
Atoi(s, from, to) ==
    IF from > to THEN 0
    ELSE 10 * Atoi(s, from, to - 1) + DigitVal[s[to]]

IsLeap(y) == (y % 4 = 0 /\ y % 100 # 0) \/ y % 400 = 0

DaysIn(m, y) ==
    IF m = 2 THEN (IF IsLeap(y) THEN 29 ELSE 28)
    ELSE IF m \in {4, 6, 9, 11} THEN 30 ELSE 31

\* days from 1970-01-01 to the civil date y-m-d (negative before 1970)
DaysFromCivil(y, m, d) ==
    LET yy == IF m <= 2 THEN y - 1 ELSE y
        era == yy \div 400
        yoe == yy - era * 400
        mp == IF m > 2 THEN m - 3 ELSE m + 9
        doy == (153 * mp + 2) \div 5 + d - 1
        doe == yoe * 365 + yoe \div 4 - yoe \div 100 + doy
    IN  era * 146097 + doe - 719468

\* the end of an optional fractional second starting at s[20]
FracEnd(s) ==
    IF Len(s) >= 21 /\ s[20] = "." /\ s[21] \in Digits
    THEN CHOOSE k \in 21..Len(s) :
            /\ AllDigits(s, 21, k)
            /\ (k = Len(s) \/ s[k + 1] \notin Digits)
    ELSE 19

\* time.Parse(time.RFC3339, ts): [ok, unix]
ParseRFC3339(ts) ==
    LET bad == [ok |-> FALSE, unix |-> 0]
    IN  IF Len(ts) < 20 THEN bad
        ELSE IF ~(/\ AllDigits(ts, 1, 4) /\ ts[5] = "-" /\ AllDigits(ts, 6, 7) /\ ts[8] = "-"
                  /\ AllDigits(ts, 9, 10) /\ ts[11] = "T" /\ AllDigits(ts, 12, 13)
                  /\ ts[14] = ":" /\ AllDigits(ts, 15, 16) /\ ts[17] = ":"
                  /\ AllDigits(ts, 18, 19))
        THEN bad
        ELSE LET y == Atoi(ts, 1, 4)
                 mo == Atoi(ts, 6, 7)
                 d == Atoi(ts, 9, 10)
                 h == Atoi(ts, 12, 13)
                 mi == Atoi(ts, 15, 16)
                 sec == Atoi(ts, 18, 19)
                 z == FracEnd(ts) + 1
                 local == DaysFromCivil(y, mo, d) * 86400 + h * 3600 + mi * 60 + sec
             IN  IF ~(mo \in 1..12 /\ d >= 1 /\ d <= DaysIn(mo, y)
                      /\ h <= 23 /\ mi <= 59 /\ sec <= 59)
                 THEN bad
                 ELSE IF z = Len(ts) /\ ts[z] = "Z" THEN [ok |-> TRUE, unix |-> local]
                 ELSE IF /\ z + 5 = Len(ts) /\ ts[z] \in {"+", "-"}
                         /\ AllDigits(ts, z + 1, z + 2) /\ ts[z + 3] = ":"
                         /\ AllDigits(ts, z + 4, z + 5)
                         /\ Atoi(ts, z + 1, z + 2) <= 23 /\ Atoi(ts, z + 4, z + 5) <= 59
                 THEN LET off == Atoi(ts, z + 1, z + 2) * 3600 + Atoi(ts, z + 4, z + 5) * 60
                      IN  [ok |-> TRUE,
                           unix |-> IF ts[z] = "+" THEN local - off ELSE local + off]
                 ELSE bad

\* parseMonkTimestamp
parseMonkTimestamp(ts) ==
    IF ts = <<>> THEN Uint64(0)
    ELSE IF ~ParseRFC3339(ts).ok THEN Uint64(0)
    ELSE Uint64(ParseRFC3339(ts).unix)

S_IFDIR == 16384
S_IFREG == 32768
DirPerm == 493
FilePerm == 420

\* parseFileMode taking the permission bits from the permissions string
parseFileModeFromPermissions(permissions, fileType) ==
    LET bits == CASE permissions = "rwx------" -> 448
                  [] permissions = "rw-------" -> 384
                  [] permissions = "rwxrwxrwx" -> 511
                  [] OTHER -> IF fileType = "d" THEN DirPerm ELSE FilePerm
    IN  IF fileType = "d" THEN S_IFDIR + bits ELSE S_IFREG + bits

\* parseFileMode
parseFileMode(permissions, fileType) ==
    IF fileType = "d" THEN S_IFDIR + DirPerm ELSE S_IFREG + FilePerm

\* parseStatMode
parseStatMode(stat) ==
    IF stat.Type = "directory" \/ stat.FileMetadata.Type = "directory"
    THEN S_IFDIR + DirPerm
    ELSE S_IFREG + FilePerm

\* fillAttr
fillAttr(stat) ==
    [Size |-> Uint64(stat.FileMetadata.Size),
     Mtime |-> parseMonkTimestamp(stat.FileMetadata.ModifiedTime),
     Ctime |-> parseMonkTimestamp(stat.FileMetadata.CreatedTime),
     Atime |-> parseMonkTimestamp(stat.FileMetadata.AccessTime),
     Mode |-> IF stat.Type = "directory" \/ stat.FileMetadata.Type = "directory"
              THEN S_IFDIR + DirPerm
              ELSE S_IFREG + FilePerm]

\* the byte of a character
Byte == "/" :> 47 @@ "." :> 46 @@ "a" :> 97 @@ "b" :> 98 @@ "c" :> 99 @@ "f" :> 102

\* FNV-1a, 64 bit: the offset basis 0xcbf29ce484222325
FnvOffset == <<8997, 33826, 40164, 52210>>

\* h times the FNV prime 0x100000001b3 = 2^40 + 435, mod 2^64
FnvMul(h) ==
    Normalize(<<h[1] * 435, h[2] * 435, h[3] * 435 + h[1] * 256, h[4] * 435 + h[2] * 256>>)

RECURSIVE FnvWrite(_, _)
\* h.Write(bytes)
FnvWrite(h, bytes) ==
    IF bytes = <<>> THEN h
    ELSE FnvWrite(FnvMul(<<Xor(h[1], Byte[Head(bytes)]), h[2], h[3], h[4]>>), Tail(bytes))

\* hashPath
hashPath(path) == FnvWrite(FnvOffset, path)

Quote == <<"\"">>

\* a slice expression out of range: the runtime panics
Panic == [panic |-> TRUE, bytes |-> <<>>]

\* a []byte value
Bytes(b) == [panic |-> FALSE, bytes |-> b]

\* a content value of a RetrieveResponse: nil, a string, raw bytes, or any
\* other JSON value (val is then its JSON text)
Content(kind, val) == [kind |-> kind, val |-> val]

\* contentToBytes; the slice v[1 : len(v)-1] panics when len(v)-1 < 1
contentToBytes(content) ==
    IF content.kind = "nil" THEN Bytes(<<>>)
    ELSE IF content.kind = "string"
         THEN IF HasPrefix(content.val, Quote) /\ HasSuffix(content.val, Quote)
              THEN IF Len(content.val) - 1 < 1 THEN Panic
                   ELSE Bytes(SubSeq(content.val, 2, Len(content.val) - 1))
              ELSE Bytes(content.val)
    ELSE IF content.kind = "bytes" THEN Bytes(content.val)
    ELSE Bytes(content.val)

(***************************************************************************)
(* pkg/monkapi: Client                                                     *)
(***************************************************************************)

\* APIError
APIError(status, code) == [api |-> TRUE, StatusCode |-> status, ErrorCode |-> code]

\* an error made by fmt.Errorf: any error that is not an *APIError
PlainError == [api |-> FALSE]

\* IsNotFound
IsNotFound(err) == err # Nil /\ err.api /\ err.StatusCode = 404

\* what one HTTP round trip brings back. transport: no response was read
\* (refused, timed out, cancelled, body unreadable); json: the body
\* unmarshals into the envelope struct; code: its error_code; typed: the
\* envelope's data unmarshals into the operation's response type; data:
\* that response
HttpResponse(status, json, code, data) ==
    [transport |-> FALSE, status |-> status, json |-> json, code |-> code,
     typed |-> TRUE, data |-> data]

NoResponse ==
    [transport |-> TRUE, status |-> 0, json |-> FALSE, code |-> "",
     typed |-> FALSE, data |-> Nil]

\* a response whose data field does not unmarshal into the response type
Malformed(status) == [HttpResponse(status, TRUE, "", Nil) EXCEPT !.typed = FALSE]

StatusOK == 200

\* Client.post: [body, err]
post(resp) ==
    IF resp.transport THEN [body |-> Nil, err |-> PlainError]
    ELSE IF resp.status # StatusOK
         THEN IF resp.json
              THEN [body |-> Nil, err |-> APIError(resp.status, resp.code)]
              ELSE [body |-> Nil, err |-> PlainError]
    ELSE [body |-> resp, err |-> Nil]

\* the unwrapping List, Stat and Retrieve share: [result, err]
Unwrap(posted) ==
    IF posted.err # Nil THEN [result |-> Nil, err |-> posted.err]
    ELSE IF ~posted.body.json THEN [result |-> Nil, err |-> PlainError]
    ELSE IF ~posted.body.typed THEN [result |-> Nil, err |-> PlainError]
    ELSE [result |-> posted.body.data, err |-> Nil]

\* Client.List
List(resp) == Unwrap(post(resp))

\* Client.Stat
Stat(resp) == Unwrap(post(resp))

\* Client.Retrieve
Retrieve(resp) == Unwrap(post(resp))

(***************************************************************************)
(* pkg/monkfs: HTTPErrorToErrno                                            *)
(***************************************************************************)

\* the translator with the NOT_A_FILE case lost in the default
HTTPErrorToErrnoNoEISDIR(err) ==
    IF err = Nil THEN 0
    ELSE IF ~err.api THEN EIO
    ELSE CASE err.StatusCode = 401 -> EACCES
           [] err.StatusCode = 403 -> EPERM
           [] err.StatusCode = 404 -> ENOENT
           [] err.StatusCode = 400 -> EINVAL
           [] err.StatusCode = 409 -> EEXIST
           [] OTHER -> EIO

\* HTTPErrorToErrno
HTTPErrorToErrno(err) ==
    IF err = Nil THEN 0
    ELSE IF ~err.api THEN EIO
    ELSE CASE err.StatusCode = 401 -> EACCES
           [] err.StatusCode = 403 -> EPERM
           [] err.StatusCode = 404 -> ENOENT
           [] err.StatusCode = 400 ->
                CASE err.ErrorCode = "INVALID_PATH" -> EINVAL
                  [] err.ErrorCode = "NOT_A_FILE" -> EISDIR
                  [] err.ErrorCode = "WILDCARDS_NOT_ALLOWED" -> EINVAL
                  [] OTHER -> EINVAL
           [] err.StatusCode = 409 -> EEXIST
           [] OTHER -> EIO

(***************************************************************************)
(* Goroutine frames                                                        *)
(***************************************************************************)
NoArg == [node |-> <<>>, path |-> <<>>, name |-> <<>>, data |-> Nil, off |-> 0, size |-> 0,
          ctx |-> "live", pick |-> ""]
NoRet == [errno |-> 0, val |-> Nil, err |-> Nil, resp |-> Nil]
NoSeen == [has |-> FALSE, data |-> Nil, age |-> 0]

\* the goroutine moves to position p, everything else of its frame kept
Goto(t, p) == pc' = [pc EXCEPT ![t] = p]

\* what lastSet holds for path, as the Get of a goroutine finds it
SeenAt(path) ==
    IF path \in DOMAIN lastSet
    THEN [has |-> TRUE, data |-> lastSet[path].data, age |-> now - lastSet[path].timestamp]
    ELSE NoSeen

(***************************************************************************)
(* sync.RWMutex, as MetadataCache.mu uses it                               *)
(***************************************************************************)

\* Get taking the lock exclusively: a reader also waits for the other readers
RLockExclusive(t) ==
    /\ pc[t] = "rlock"
    /\ muWriter = 0
    /\ muPending = {}
    /\ muReaders = {}
    /\ muReaders' = muReaders \cup {t}
    /\ Goto(t, "rlocked")
    /\ UNCHANGED <<now, entries, muWriter, muPending, nodes, handles, op, arg, ret,
                   calls, started, lastSet, seen, pin, pout>>

\* c.mu.RLock(): blocks while a writer holds the lock or waits for it
RLock(t) ==
    /\ pc[t] = "rlock"
    /\ muWriter = 0
    /\ muPending = {}
    /\ muReaders' = muReaders \cup {t}
    /\ Goto(t, "rlocked")
    /\ UNCHANGED <<now, entries, muWriter, muPending, nodes, handles, op, arg, ret,
                   calls, started, lastSet, seen, pin, pout>>

\* c.mu.Lock() is called: later readers queue behind this writer
LockCall(t) ==
    /\ pc[t] = "lock"
    /\ muPending' = muPending \cup {t}
    /\ Goto(t, "lockwait")
    /\ UNCHANGED <<now, entries, muReaders, muWriter, nodes, handles, op, arg, ret,
                   calls, started, lastSet, seen, pin, pout>>

\* c.mu.Lock() returns: no reader and no other writer is inside
Lock(t) ==
    /\ pc[t] = "lockwait"
    /\ muWriter = 0
    /\ muReaders = {}
    /\ muWriter' = t
    /\ muPending' = muPending \ {t}
    /\ Goto(t, "locked")
    /\ UNCHANGED <<now, entries, muReaders, nodes, handles, op, arg, ret,
                   calls, started, lastSet, seen, pin, pout>>

\* defer c.mu.RUnlock()
RUnlock(t) == muReaders' = muReaders \ {t} /\ UNCHANGED <<muWriter, muPending>>

\* defer c.mu.Unlock()
Unlock(t) == muWriter' = 0 /\ UNCHANGED <<muReaders, muPending>>

(***************************************************************************)
(* internal/cache: the four operations, called directly                    *)
(***************************************************************************)

\* the paths the callers of the cache use as keys
CachePaths ==
    { Slash,
      <<"/","a">>, <<"/","b">>, <<"/","/","a">>,
      <<"/","a","/","b">>, <<"/","a","/","c">>,
      <<"/","a","/","b","/","c">>,
      <<"a">>, <<"a","/","b">> }

\* a goroutine calls c.Get(path)
CallGet(t) ==
    /\ pc[t] = "idle"
    /\ started < MaxCalls
    /\ \E path \in CachePaths :
         arg' = [arg EXCEPT ![t] = [NoArg EXCEPT !.path = path]]
    /\ op' = [op EXCEPT ![t] = "Get"]
    /\ Goto(t, "rlock")
    /\ started' = started + 1
    /\ UNCHANGED <<now, entries, muReaders, muWriter, muPending, nodes, handles, ret,
                   calls, lastSet, seen, pin, pout>>

\* a goroutine calls c.Set(path, data)
CallSet(t) ==
    /\ pc[t] = "idle"
    /\ started < MaxCalls
    /\ \E path \in CachePaths, data \in StatResponses :
         arg' = [arg EXCEPT ![t] = [NoArg EXCEPT !.path = path, !.data = data]]
    /\ op' = [op EXCEPT ![t] = "Set"]
    /\ Goto(t, "lock")
    /\ started' = started + 1
    /\ UNCHANGED <<now, entries, muReaders, muWriter, muPending, nodes, handles, ret,
                   calls, lastSet, seen, pin, pout>>

\* a goroutine calls c.Invalidate(path)
CallInvalidate(t) ==
    /\ pc[t] = "idle"
    /\ started < MaxCalls
    /\ \E path \in CachePaths :
         arg' = [arg EXCEPT ![t] = [NoArg EXCEPT !.path = path]]
    /\ op' = [op EXCEPT ![t] = "Invalidate"]
    /\ Goto(t, "lock")
    /\ started' = started + 1
    /\ UNCHANGED <<now, entries, muReaders, muWriter, muPending, nodes, handles, ret,
                   calls, lastSet, seen, pin, pout>>

\* a goroutine calls c.Clear()
CallClear(t) ==
    /\ pc[t] = "idle"
    /\ started < MaxCalls
    /\ arg' = [arg EXCEPT ![t] = NoArg]
    /\ op' = [op EXCEPT ![t] = "Clear"]
    /\ Goto(t, "lock")
    /\ started' = started + 1
    /\ UNCHANGED <<now, entries, muReaders, muWriter, muPending, nodes, handles, ret,
                   calls, lastSet, seen, pin, pout>>

\* c.Get: the map read under the read lock, then the deferred RUnlock
GetBody(t) ==
    /\ pc[t] = "rlocked"
    /\ op[t] = "Get"
    /\ ret' = [ret EXCEPT ![t] = [NoRet EXCEPT !.val = Get(arg[t].path)]]
    /\ seen' = [seen EXCEPT ![t] = SeenAt(arg[t].path)]
    /\ RUnlock(t)
    /\ Goto(t, "done")
    /\ UNCHANGED <<now, entries, nodes, handles, op, arg, calls, started, lastSet, pin, pout>>

\* c.Set: the map write under the write lock, then the deferred Unlock
SetBody(t) ==
    /\ pc[t] = "locked"
    /\ op[t] = "Set"
    /\ entries' = Set(arg[t].path, arg[t].data)
    /\ lastSet' = [p \in DOMAIN lastSet \cup {arg[t].path} |->
                     IF p = arg[t].path THEN [data |-> arg[t].data, timestamp |-> now]
                     ELSE lastSet[p]]
    /\ ret' = [ret EXCEPT ![t] = NoRet]
    /\ Unlock(t)
    /\ Goto(t, "done")
    /\ UNCHANGED <<now, nodes, handles, op, arg, calls, started, seen, pin, pout>>

\* the proper ancestor directories of p: p cut off before one of its "/",
\* and the root for an absolute p
Ancestors(p) ==
    {SubSeq(p, 1, i - 1) : i \in {j \in 2..Len(p) : p[j] = "/"}}
        \cup (IF Len(p) > 1 /\ p[1] = "/" THEN {Slash} ELSE {})

IsProperAncestor(q, p) == q \in Ancestors(p)

\* the keys an Invalidate(path) is specified to remove
Affected(path) ==
    {path} \cup {q \in DOMAIN lastSet : q # Slash /\ IsProperAncestor(q, path)}

\* c.Invalidate: the deletes under the write lock, then the deferred Unlock
InvalidateBody(t) ==
    /\ pc[t] = "locked"
    /\ op[t] = "Invalidate"
    /\ entries' = Invalidate(arg[t].path)
    /\ lastSet' = Delete(lastSet, Affected(arg[t].path))
    /\ ret' = [ret EXCEPT ![t] = [NoRet EXCEPT !.val = DOMAIN entries \ DOMAIN entries']]
    /\ Unlock(t)
    /\ Goto(t, "done")
    /\ UNCHANGED <<now, nodes, handles, op, arg, calls, started, seen, pin, pout>>

\* c.Clear: the map replaced under the write lock, then the deferred Unlock
ClearBody(t) ==
    /\ pc[t] = "locked"
    /\ op[t] = "Clear"
    /\ entries' = Clear
    /\ lastSet' = <<>>
    /\ ret' = [ret EXCEPT ![t] = NoRet]
    /\ Unlock(t)
    /\ Goto(t, "done")
    /\ UNCHANGED <<now, nodes, handles, op, arg, calls, started, seen, pin, pout>>

\* the operation has returned to its caller
Return(t) ==
    /\ pc[t] = "done"
    /\ Goto(t, "idle")
    /\ op' = [op EXCEPT ![t] = "none"]
    /\ arg' = [arg EXCEPT ![t] = NoArg]
    /\ ret' = [ret EXCEPT ![t] = NoRet]
    /\ seen' = [seen EXCEPT ![t] = NoSeen]
    /\ calls' = [calls EXCEPT ![t] = 0]
    /\ UNCHANGED <<now, entries, muReaders, muWriter, muPending, nodes, handles,
                   started, lastSet, pin, pout>>

\* the clock advances
TickSteps == {TTL, TTL + 1}

Tick ==
    /\ \E d \in TickSteps :
         /\ now + d <= MaxTime
         /\ now' = now + d
    /\ UNCHANGED <<entries, muReaders, muWriter, muPending, nodes, handles, pc, op, arg,
                   ret, calls, started, lastSet, seen, pin, pout>>

\* a cache that earlier operations filled at time 0
Populated ==
    [p \in {Slash, <<"/","a">>, <<"/","b">>, <<"/","a","/","b">>, <<"/","a","/","c">>,
            <<"/","a","/","b","/","c">>, <<"a">>, <<"a","/","b">>} |->
        CacheEntry(IF Len(p) >= 6 THEN FileStat ELSE DirStat, 0)]

InitFrames ==
    /\ pc = [t \in Threads |-> "idle"]
    /\ op = [t \in Threads |-> "none"]
    /\ arg = [t \in Threads |-> NoArg]
    /\ ret = [t \in Threads |-> NoRet]
    /\ seen = [t \in Threads |-> NoSeen]
    /\ calls = [t \in Threads |-> 0]
    /\ started = 0
    /\ muReaders = {}
    /\ muWriter = 0
    /\ muPending = {}
    /\ now = 0

InitCache ==
    /\ InitFrames
    /\ entries \in {NewMetadataCache, Populated}
    /\ lastSet = entries
    /\ nodes = {<<>>}
    /\ handles = {}
    /\ pin = Nil
    /\ pout = Nil

NextCache ==
    \/ Tick
    \/ \E t \in Threads :
         \/ CallGet(t) \/ CallSet(t) \/ CallInvalidate(t) \/ CallClear(t)
         \/ RLock(t) \/ LockCall(t) \/ Lock(t)
         \/ GetBody(t) \/ SetBody(t) \/ InvalidateBody(t) \/ ClearBody(t)
         \/ Return(t)

SpecCache == InitCache /\ [][NextCache]_vars

(***************************************************************************)
(* Properties of the cache (SpecCache)                                     *)
(***************************************************************************)

\* C2: a Get returns the snapshot of the last Set on its path, provided no
\* Invalidate/Clear removed it since, exactly when that Set is at most TTL
\* old (TTL itself included); it returns absent when the Set is older than
\* TTL and when the path was never set.
C2_GetAfterSet ==
    \A t \in Threads :
        (pc[t] = "done" /\ op[t] = "Get") =>
            ret[t].val = IF seen[t].has /\ seen[t].age <= TTL THEN seen[t].data ELSE Nil

\* a Get that found its entry exactly TTL old and returned it
C2_Witness ==
    \E t \in Threads :
        /\ pc[t] = "done" /\ op[t] = "Get"
        /\ seen[t].has /\ seen[t].age = TTL
        /\ ret[t].val = seen[t].data /\ ret[t].val # Nil

\* the step in which goroutine t runs the body of Invalidate
InvalidateStep(t) == pc[t] = "locked" /\ op[t] = "Invalidate" /\ pc'[t] = "done"

\* C3: after Invalidate(p) on an absolute path p, Get returns absent for p
\* and for every proper ancestor directory of p other than the root.
C3_InvalidateRemoves ==
    [][\A t \in Threads :
         (InvalidateStep(t) /\ HasPrefix(arg[t].path, Slash)) =>
            \A q \in {arg[t].path} \cup (Ancestors(arg[t].path) \ {Slash}) :
                Get(q)' = Nil]_vars

\* Invalidate(/a/b/c) has removed the cached /a/b/c, /a/b and /a
C3_Witness ==
    \E t \in Threads :
        /\ pc[t] = "done" /\ op[t] = "Invalidate"
        /\ arg[t].path = <<"/","a","/","b","/","c">>
        /\ ret[t].val = {<<"/","a","/","b","/","c">>, <<"/","a","/","b">>, <<"/","a">>}

\* C4: Invalidate(p) leaves every entry whose key is neither p nor a proper
\* ancestor of p as it was (same snapshot, same timestamp); the root entry
\* is left as it was whenever p is not the root.
C4_InvalidateFrame ==
    [][\A t \in Threads :
         InvalidateStep(t) =>
            \A q \in DOMAIN entries :
                (q # arg[t].path /\ (q = Slash \/ ~IsProperAncestor(q, arg[t].path))) =>
                    (q \in DOMAIN entries' /\ entries'[q] = entries[q])]_vars

\* Invalidate(/a/b) removed /a/b and /a and kept the sibling /a/c, the
\* ancestor's sibling /b, the descendant /a/b/c and the root
C4_Witness ==
    \E t \in Threads :
        /\ pc[t] = "done" /\ op[t] = "Invalidate"
        /\ arg[t].path = <<"/","a","/","b">>
        /\ ret[t].val = {<<"/","a","/","b">>, <<"/","a">>}
        /\ {Slash, <<"/","b">>, <<"/","a","/","c">>, <<"/","a","/","b","/","c">>}
               \subseteq DOMAIN entries

\* C10: a goroutine inside the critical section of Set, Invalidate or Clear
\* is alone inside the cache; a Get about to take the read lock can take it
\* whenever no writer holds or awaits the lock, however many Gets are inside.
C10_ReadersWriter ==
    /\ \A t \in Threads : \A u \in Threads \ {t} :
         pc[t] = "locked" => pc[u] \notin {"locked", "rlocked"}
    /\ \A t \in Threads :
         (pc[t] = "rlock" /\ \A u \in Threads : pc[u] \notin {"lockwait", "locked"})
            => ENABLED RLock(t)

\* every goroutine but one is inside Get's critical section and the last
\* one is about to enter it
C10_Witness ==
    \E t \in Threads :
        /\ pc[t] = "rlock"
        /\ \A u \in Threads \ {t} : pc[u] = "rlocked" /\ op[u] = "Get"

(***************************************************************************)
(* The remote side                                                         *)
(***************************************************************************)
Names == {<<"a">>, <<"b">>}

\* a failed round trip: no response, a non-200 status whose body is the
\* JSON error envelope, or a non-200 status whose body is something else
FailedResponses ==
    {NoResponse,
     HttpResponse(400, TRUE, "NOT_A_FILE", Nil),
     HttpResponse(403, TRUE, "", Nil),
     HttpResponse(404, TRUE, "RECORD_NOT_FOUND", Nil),
     HttpResponse(404, FALSE, "", Nil),
     HttpResponse(500, TRUE, "", Nil)}

\* a 200 whose body is not the envelope, or whose data is not the payload
BadEnvelopes ==
    {HttpResponse(StatusOK, FALSE, "", Nil), Malformed(StatusOK)}

\* FileEntry
FileEntry(name, fileType, permissions, path) ==
    [Name |-> name, FileType |-> fileType, FilePermissions |-> permissions, Path |-> path]

\* the full path the remote side gives the entry name of directory path
EntryPath(path, name) == IF path = Slash THEN path \o name ELSE path \o Slash \o name

\* ListResponse.Entries of directory path
Listing(path) ==
    <<FileEntry(<<"a">>, "d", "rwxr-xr-x", EntryPath(path, <<"a">>)),
      FileEntry(<<"b">>, "f", "rw-r--r--", EntryPath(path, <<"b">>))>>

ListReplies(path) ==
    FailedResponses \cup BadEnvelopes
        \cup {HttpResponse(StatusOK, TRUE, "", l) : l \in {<<>>, Listing(path)}}

StatReplies ==
    FailedResponses \cup BadEnvelopes
        \cup {HttpResponse(StatusOK, TRUE, "", st) : st \in StatResponses}

\* the content values of a RetrieveResponse
Contents ==
    {Content("nil", <<>>),
     Content("string", <<>>),
     Content("string", <<"a", "b">>),
     Content("string", <<"\"", "a", "b", "\"">>),
     Content("string", Quote),
     Content("other", <<"7">>)}

RetrieveReplies ==
    FailedResponses \cup BadEnvelopes
        \cup {HttpResponse(StatusOK, TRUE, "", c) : c \in Contents}

(***************************************************************************)
(* pkg/monkfs: the callbacks                                               *)
(***************************************************************************)
MaxDepth == 2
MaxOff == 2
MaxLen == 2

\* n.Path(nil): the names from the root to the node, joined by "/"
Path(node) == JoinSep(node)

\* MonkFS.getPath
getPath(node) == IF Path(node) = <<>> THEN Slash ELSE Slash \o Path(node)

\* the process runs: no callback has panicked
Alive == \A t \in Threads : pc[t] # "panic"

\* the frame of a callback that returns errno with result val
Returned(t, errno, val, err, resp) ==
    ret' = [ret EXCEPT ![t] = [errno |-> errno, val |-> val, err |-> err, resp |-> resp]]

\* the errno of the three callbacks that test IsNotFound first
StatErrno(err) == IF IsNotFound(err) THEN ENOENT ELSE HTTPErrorToErrno(err)

\* the context of the callback's request is done: the host interrupted the
\* callback, or the client's Timeout fired
Aborted(t) == arg[t].ctx = "done"

\* the outcomes of the round trip of goroutine t: httpClient.Do (or the read
\* of the body) fails once the request's context is done
Arrives(t, replies) == IF Aborted(t) THEN {NoResponse} ELSE replies

\* the host cancels the callback's context, or the client's Timeout passes,
\* while the remote call is in flight
Cancel(t) ==
    /\ Alive
    /\ pc[t] = "wait"
    /\ ~Aborted(t)
    /\ arg' = [arg EXCEPT ![t].ctx = "done"]
    /\ UNCHANGED <<now, entries, muReaders, muWriter, muPending, nodes, handles, pc, op,
                   ret, calls, started, lastSet, seen, pin, pout>>

\* history: lastSet after c.Set(path, data)
Recorded(path, data) ==
    [p \in DOMAIN lastSet \cup {path} |->
        IF p = path THEN [data |-> data, timestamp |-> now] ELSE lastSet[p]]

\* Readdir is called; List is on its way
Readdir(t) ==
    /\ Alive
    /\ pc[t] = "idle"
    /\ started < MaxCalls
    /\ \E n \in nodes :
         arg' = [arg EXCEPT ![t] = [NoArg EXCEPT !.node = n, !.path = getPath(n),
                                                     !.pick = "entries"]]
    /\ op' = [op EXCEPT ![t] = "Readdir"]
    /\ calls' = [calls EXCEPT ![t] = @ + 1]
    /\ Goto(t, "wait")
    /\ started' = started + 1
    /\ UNCHANGED <<now, entries, muReaders, muWriter, muPending, nodes, handles, ret,
                   lastSet, seen, pin, pout>>

\* DirEntry values of the entries of a ListResponse
RECURSIVE DirEntries(_)
DirEntries(list) ==
    IF list = <<>> THEN <<>>
    ELSE <<[Name |-> Head(list).Name,
            Mode |-> parseFileMode(Head(list).FilePermissions, Head(list).FileType),
            Ino |-> hashPath(Head(list).Path)]>> \o DirEntries(Tail(list))

\* Readdir: List returns, the entries are converted
ReaddirList(t) ==
    /\ Alive
    /\ pc[t] = "wait"
    /\ op[t] = "Readdir"
    /\ \E resp \in Arrives(t, ListReplies(arg[t].path)) :
         LET r == List(resp)
         IN  IF r.err # Nil
             THEN Returned(t, HTTPErrorToErrno(r.err), Nil, r.err, resp)
             ELSE Returned(t, 0, DirEntries(r.result), Nil, resp)
    /\ Goto(t, "done")
    /\ UNCHANGED <<now, entries, muReaders, muWriter, muPending, nodes, handles, op, arg,
                   calls, started, lastSet, seen, pin, pout>>

\* Getattr is called; c.Get is about to take the read lock
Getattr(t) ==
    /\ Alive
    /\ pc[t] = "idle"
    /\ started < MaxCalls
    /\ \E n \in nodes :
         arg' = [arg EXCEPT ![t] = [NoArg EXCEPT !.node = n, !.path = getPath(n),
                                                     !.pick = "file_metadata"]]
    /\ op' = [op EXCEPT ![t] = "Getattr"]
    /\ Goto(t, "rlock")
    /\ started' = started + 1
    /\ UNCHANGED <<now, entries, muReaders, muWriter, muPending, nodes, handles, ret,
                   calls, lastSet, seen, pin, pout>>

\* Getattr keeping the read lock on a miss: RUnlock on the hit path only
GetattrGetHoldsLock(t) ==
    /\ Alive
    /\ pc[t] = "rlocked"
    /\ op[t] = "Getattr"
    /\ LET cached == Get(arg[t].path)
       IN  IF cached # Nil
           THEN /\ Returned(t, 0, fillAttr(cached), Nil, Nil)
                /\ Goto(t, "done")
                /\ calls' = calls
                /\ RUnlock(t)
           ELSE /\ ret' = ret
                /\ Goto(t, "wait")
                /\ calls' = [calls EXCEPT ![t] = @ + 1]
                /\ UNCHANGED <<muReaders, muWriter, muPending>>
    /\ seen' = [seen EXCEPT ![t] = SeenAt(arg[t].path)]
    /\ UNCHANGED <<now, entries, nodes, handles, op, arg, started, lastSet, pin, pout>>

\* Getattr: the cache check; a hit returns, a miss sends Stat
GetattrGet(t) ==
    /\ Alive
    /\ pc[t] = "rlocked"
    /\ op[t] = "Getattr"
    /\ LET cached == Get(arg[t].path)
       IN  IF cached # Nil
           THEN /\ Returned(t, 0, fillAttr(cached), Nil, Nil)
                /\ Goto(t, "done")
                /\ calls' = calls
           ELSE /\ ret' = ret
                /\ Goto(t, "wait")
                /\ calls' = [calls EXCEPT ![t] = @ + 1]
    /\ seen' = [seen EXCEPT ![t] = SeenAt(arg[t].path)]
    /\ RUnlock(t)
    /\ UNCHANGED <<now, entries, nodes, handles, op, arg, started, lastSet, pin, pout>>

\* Getattr remembering a not-found answer in the cache as an empty snapshot
GetattrStatNegative(t) ==
    /\ Alive
    /\ pc[t] = "wait"
    /\ op[t] = "Getattr"
    /\ \E resp \in Arrives(t, StatReplies) :
         LET r == Stat(resp)
         IN  IF r.err # Nil
             THEN /\ Returned(t, StatErrno(r.err), Nil, r.err, resp)
                  /\ Goto(t, "done")
                  /\ arg' = arg
                  /\ entries' = IF IsNotFound(r.err)
                                THEN Set(arg[t].path,
                                         StatResponse("", FileMetadata(0, <<>>, <<>>, <<>>, "", "")))
                                ELSE entries
             ELSE /\ Returned(t, 0, Nil, Nil, resp)
                  /\ Goto(t, "lock")
                  /\ arg' = [arg EXCEPT ![t].data = r.result]
                  /\ entries' = entries
    /\ UNCHANGED <<now, muReaders, muWriter, muPending, nodes, handles, op,
                   calls, started, lastSet, seen, pin, pout>>

\* Getattr: Stat returns; a failure returns its errno, a success goes on
\* to c.Set
GetattrStat(t) ==
    /\ Alive
    /\ pc[t] = "wait"
    /\ op[t] = "Getattr"
    /\ \E resp \in Arrives(t, StatReplies) :
         LET r == Stat(resp)
         IN  IF r.err # Nil
             THEN /\ Returned(t, StatErrno(r.err), Nil, r.err, resp)
                  /\ Goto(t, "done")
                  /\ arg' = arg
             ELSE /\ Returned(t, 0, Nil, Nil, resp)
                  /\ Goto(t, "lock")
                  /\ arg' = [arg EXCEPT ![t].data = r.result]
    /\ UNCHANGED <<now, entries, muReaders, muWriter, muPending, nodes, handles, op,
                   calls, started, lastSet, seen, pin, pout>>

\* Getattr: c.Set under the write lock, then fillAttr
GetattrSet(t) ==
    /\ Alive
    /\ pc[t] = "locked"
    /\ op[t] = "Getattr"
    /\ entries' = Set(arg[t].path, arg[t].data)
    /\ lastSet' = Recorded(arg[t].path, arg[t].data)
    /\ Unlock(t)
    /\ Returned(t, 0, fillAttr(arg[t].data), Nil, ret[t].resp)
    /\ Goto(t, "done")
    /\ UNCHANGED <<now, nodes, handles, op, arg, calls, started, seen, pin, pout>>

\* Lookup answering from the cache when the path has a live entry
LookupCacheFirst(t) ==
    /\ Alive
    /\ pc[t] = "idle"
    /\ started < MaxCalls
    /\ \E n \in nodes, name \in Names :
         LET path == getPath(n) \o Slash \o name
             cached == Get(path)
         IN  /\ Len(n) < MaxDepth
             /\ arg' = [arg EXCEPT ![t] = [NoArg EXCEPT !.node = n, !.name = name,
                                                         !.path = path,
                                                         !.pick = "file_metadata"]]
             /\ IF cached # Nil
                THEN /\ Returned(t, 0,
                                 [Mode |-> parseStatMode(cached), Ino |-> hashPath(path),
                                  Attr |-> fillAttr(cached)], Nil, Nil)
                     /\ calls' = calls
                     /\ Goto(t, "done")
                ELSE /\ ret' = ret
                     /\ calls' = [calls EXCEPT ![t] = @ + 1]
                     /\ Goto(t, "wait")
    /\ op' = [op EXCEPT ![t] = "Lookup"]
    /\ started' = started + 1
    /\ UNCHANGED <<now, entries, muReaders, muWriter, muPending, nodes, handles,
                   lastSet, seen, pin, pout>>

\* Lookup of name is called on a node; Stat is on its way
Lookup(t) ==
    /\ Alive
    /\ pc[t] = "idle"
    /\ started < MaxCalls
    /\ \E n \in nodes, name \in Names :
         /\ Len(n) < MaxDepth
         /\ arg' = [arg EXCEPT ![t] = [NoArg EXCEPT !.node = n, !.name = name,
                                                     !.path = getPath(n) \o Slash \o name,
                                                     !.pick = "file_metadata"]]
    /\ op' = [op EXCEPT ![t] = "Lookup"]
    /\ calls' = [calls EXCEPT ![t] = @ + 1]
    /\ Goto(t, "wait")
    /\ started' = started + 1
    /\ UNCHANGED <<now, entries, muReaders, muWriter, muPending, nodes, handles, ret,
                   lastSet, seen, pin, pout>>

\* Lookup: Stat returns; a failure returns its errno, a success goes on to
\* c.Set
LookupStat(t) ==
    /\ Alive
    /\ pc[t] = "wait"
    /\ op[t] = "Lookup"
    /\ \E resp \in Arrives(t, StatReplies) :
         LET r == Stat(resp)
         IN  IF r.err # Nil
             THEN /\ Returned(t, StatErrno(r.err), Nil, r.err, resp)
                  /\ Goto(t, "done")
                  /\ arg' = arg
             ELSE /\ Returned(t, 0, Nil, Nil, resp)
                  /\ Goto(t, "lock")
                  /\ arg' = [arg EXCEPT ![t].data = r.result]
    /\ UNCHANGED <<now, entries, muReaders, muWriter, muPending, nodes, handles, op,
                   calls, started, lastSet, seen, pin, pout>>

\* Lookup: c.Set under the write lock, then the child inode and fillAttr
LookupSet(t) ==
    /\ Alive
    /\ pc[t] = "locked"
    /\ op[t] = "Lookup"
    /\ entries' = Set(arg[t].path, arg[t].data)
    /\ lastSet' = Recorded(arg[t].path, arg[t].data)
    /\ Unlock(t)
    /\ nodes' = nodes \cup {Append(arg[t].node, arg[t].name)}
    /\ Returned(t, 0,
                [Mode |-> parseStatMode(arg[t].data), Ino |-> hashPath(arg[t].path),
                 Attr |-> fillAttr(arg[t].data)],
                Nil, ret[t].resp)
    /\ Goto(t, "done")
    /\ UNCHANGED <<now, handles, op, arg, calls, started, seen, pin, pout>>

\* Open trusting a live cache entry instead of asking the remote side
OpenCacheFirst(t) ==
    /\ Alive
    /\ pc[t] = "idle"
    /\ started < MaxCalls
    /\ \E n \in nodes :
         /\ arg' = [arg EXCEPT ![t] = [NoArg EXCEPT !.node = n, !.path = getPath(n)]]
         /\ IF Get(getPath(n)) # Nil
            THEN /\ Returned(t, 0, [path |-> getPath(n)], Nil, Nil)
                 /\ handles' = handles \cup {getPath(n)}
                 /\ calls' = calls
                 /\ Goto(t, "done")
            ELSE /\ ret' = ret
                 /\ handles' = handles
                 /\ calls' = [calls EXCEPT ![t] = @ + 1]
                 /\ Goto(t, "wait")
    /\ op' = [op EXCEPT ![t] = "Open"]
    /\ started' = started + 1
    /\ UNCHANGED <<now, entries, muReaders, muWriter, muPending, nodes,
                   lastSet, seen, pin, pout>>

\* Open is called; Stat is on its way
Open(t) ==
    /\ Alive
    /\ pc[t] = "idle"
    /\ started < MaxCalls
    /\ \E n \in nodes :
         arg' = [arg EXCEPT ![t] = [NoArg EXCEPT !.node = n, !.path = getPath(n)]]
    /\ op' = [op EXCEPT ![t] = "Open"]
    /\ calls' = [calls EXCEPT ![t] = @ + 1]
    /\ Goto(t, "wait")
    /\ started' = started + 1
    /\ UNCHANGED <<now, entries, muReaders, muWriter, muPending, nodes, handles, ret,
                   lastSet, seen, pin, pout>>

\* Open sending Stat a second time after a failure
OpenStatRetry(t) ==
    /\ Alive
    /\ pc[t] = "wait"
    /\ op[t] = "Open"
    /\ \E resp \in Arrives(t, StatReplies) :
         LET r == Stat(resp)
         IN  IF r.err # Nil /\ calls[t] < 2
             THEN /\ Returned(t, 0, Nil, Nil, Nil)
                  /\ handles' = handles
                  /\ calls' = [calls EXCEPT ![t] = @ + 1]
                  /\ Goto(t, "wait")
             ELSE IF r.err # Nil
             THEN /\ Returned(t, StatErrno(r.err), Nil, r.err, resp)
                  /\ handles' = handles
                  /\ calls' = calls
                  /\ Goto(t, "done")
             ELSE /\ Returned(t, 0, [path |-> arg[t].path], Nil, resp)
                  /\ handles' = handles \cup {arg[t].path}
                  /\ calls' = calls
                  /\ Goto(t, "done")
    /\ UNCHANGED <<now, entries, muReaders, muWriter, muPending, nodes, op, arg,
                   started, lastSet, seen, pin, pout>>

\* Open: Stat returns; a success makes the file handle
OpenStat(t) ==
    /\ Alive
    /\ pc[t] = "wait"
    /\ op[t] = "Open"
    /\ \E resp \in Arrives(t, StatReplies) :
         LET r == Stat(resp)
         IN  IF r.err # Nil
             THEN /\ Returned(t, StatErrno(r.err), Nil, r.err, resp)
                  /\ handles' = handles
             ELSE /\ Returned(t, 0, [path |-> arg[t].path], Nil, resp)
                  /\ handles' = handles \cup {arg[t].path}
    /\ Goto(t, "done")
    /\ UNCHANGED <<now, entries, muReaders, muWriter, muPending, nodes, op, arg,
                   calls, started, lastSet, seen, pin, pout>>

\* Read is called on an open file handle; Retrieve is on its way
Read(t) ==
    /\ Alive
    /\ pc[t] = "idle"
    /\ started < MaxCalls
    /\ \E h \in handles, off \in 0..MaxOff, size \in 1..MaxLen :
         arg' = [arg EXCEPT ![t] = [NoArg EXCEPT !.path = h, !.off = off, !.size = size,
                                                     !.pick = "content"]]
    /\ op' = [op EXCEPT ![t] = "Read"]
    /\ calls' = [calls EXCEPT ![t] = @ + 1]
    /\ Goto(t, "wait")
    /\ started' = started + 1
    /\ UNCHANGED <<now, entries, muReaders, muWriter, muPending, nodes, handles, ret,
                   lastSet, seen, pin, pout>>

\* Read: Retrieve returns; the content is converted and cut at the offset
ReadRetrieve(t) ==
    /\ Alive
    /\ pc[t] = "wait"
    /\ op[t] = "Read"
    /\ \E resp \in Arrives(t, RetrieveReplies) :
         LET r == Retrieve(resp)
             converted == contentToBytes(r.result)
             data == converted.bytes
         IN  IF r.err # Nil
             THEN /\ Returned(t, HTTPErrorToErrno(r.err), Nil, r.err, resp)
                  /\ Goto(t, "done")
             ELSE IF converted.panic
             THEN /\ Returned(t, 0, Nil, Nil, resp)
                  /\ Goto(t, "panic")
             ELSE IF arg[t].off >= Len(data)
             THEN /\ Returned(t, 0, <<>>, Nil, resp)
                  /\ Goto(t, "done")
             ELSE /\ Returned(t, 0, SubSeq(data, arg[t].off + 1, Len(data)), Nil, resp)
                  /\ Goto(t, "done")
    /\ UNCHANGED <<now, entries, muReaders, muWriter, muPending, nodes, handles, op, arg,
                   calls, started, lastSet, seen, pin, pout>>

\* the mounted tree after the host looked up /a and /a/b and opened /a/b
Browsed ==
    [entries |-> (<<"/","/","a">> :> CacheEntry(DirStat, 0))
                    @@ (<<"/","a","/","b">> :> CacheEntry(FileStat, 0)),
     nodes |-> {<<>>, <<<<"a">>>>, <<<<"a">>, <<"b">>>>},
     handles |-> {<<"/","a","/","b">>}]

\* NewMonkFS: the root node and an empty cache
Mounted == [entries |-> NewMetadataCache, nodes |-> {<<>>}, handles |-> {}]

Init ==
    /\ InitFrames
    /\ \E m \in {Mounted, Browsed} :
         /\ entries = m.entries
         /\ nodes = m.nodes
         /\ handles = m.handles
    /\ lastSet = entries
    /\ pin = Nil
    /\ pout = Nil

Next ==
    \/ Tick
    \/ \E t \in Threads :
         \/ Readdir(t) \/ ReaddirList(t)
         \/ Getattr(t) \/ GetattrGet(t) \/ GetattrStat(t) \/ GetattrSet(t)
         \/ Lookup(t) \/ LookupStat(t) \/ LookupSet(t)
         \/ Open(t) \/ OpenStat(t)
         \/ Read(t) \/ ReadRetrieve(t)
         \/ RLock(t) \/ LockCall(t) \/ Lock(t)
         \/ Cancel(t)
         \/ Return(t)

Spec == Init /\ [][Next]_vars

(***************************************************************************)
(* The error translator called on its own (SpecPure)                       *)
(***************************************************************************)

\* the errors HTTPErrorToErrno is given: none, a plain error, API errors
TranslatorInputs ==
    {Nil, PlainError}
        \cup {APIError(st, c) :
                st \in {200, 400, 401, 402, 403, 404, 409, 410, 500, 502, 503},
                c \in {"", "INVALID_PATH", "NOT_A_FILE", "WILDCARDS_NOT_ALLOWED",
                       "RECORD_NOT_FOUND"}}

\* HTTPErrorToErrno(err) is called
Translate ==
    /\ pout = Nil
    /\ pin.fn = "HTTPErrorToErrno"
    /\ pout' = [errno |-> HTTPErrorToErrno(pin.x)]
    /\ UNCHANGED <<now, entries, muReaders, muWriter, muPending, nodes, handles, pc, op,
                   arg, ret, calls, started, lastSet, seen, pin>>

InitPure ==
    /\ InitFrames
    /\ entries = NewMetadataCache
    /\ lastSet = entries
    /\ nodes = {<<>>}
    /\ handles = {}
    /\ pin \in {[fn |-> "HTTPErrorToErrno", x |-> e] : e \in TranslatorInputs}
    /\ pout = Nil

NextPure == Translate

SpecPure == InitPure /\ [][NextPure]_vars

\* the table of the error translator
ErrnoTable(err) ==
    IF err = Nil THEN 0
    ELSE IF ~err.api THEN EIO
    ELSE IF err.StatusCode = 401 THEN EACCES
    ELSE IF err.StatusCode = 403 THEN EPERM
    ELSE IF err.StatusCode = 404 THEN ENOENT
    ELSE IF err.StatusCode = 400 /\ err.ErrorCode = "NOT_A_FILE" THEN EISDIR
    ELSE IF err.StatusCode = 400 THEN EINVAL
    ELSE IF err.StatusCode = 409 THEN EEXIST
    ELSE EIO

\* C5: HTTPErrorToErrno has a result for every input and the result is the
\* table's: no error 0, 401 EACCES, 403 EPERM, 404 ENOENT whatever the
\* application code, 400 with NOT_A_FILE EISDIR, 400 otherwise EINVAL,
\* 409 EEXIST, any other status EIO, any non-API error EIO.
C5_ErrnoTable ==
    /\ pout = Nil => ENABLED Translate
    /\ pout # Nil => pout.errno = ErrnoTable(pin.x)

\* the translator has answered EISDIR for a 400 with NOT_A_FILE
C5_Witness ==
    /\ pout # Nil
    /\ pin.x = APIError(400, "NOT_A_FILE")
    /\ pout.errno = EISDIR

(***************************************************************************)
(* Properties of the callbacks (Spec)                                      *)
(***************************************************************************)

\* the round trip did not deliver the operation's response: no response, a
\* status other than 200, or a 200 whose envelope does not unmarshal
Failed(resp) == resp.transport \/ resp.status # 200 \/ ~resp.json \/ ~resp.typed

\* the remote side answered with status 404
NotFound(resp) == resp # Nil /\ ~resp.transport /\ resp.status = 404

\* the step in which the remote call of goroutine t returns
CallReturns(t) == pc[t] = "wait" /\ pc'[t] # "wait"

\* C1: a Getattr whose cache check finds the path last set at most TTL ago
\* (no Invalidate or Clear since) returns success with the attributes
\* converted from that snapshot and issues no remote call.
C1_GetattrHit ==
    \A t \in Threads :
        (pc[t] = "done" /\ op[t] = "Getattr" /\ seen[t].has /\ seen[t].age <= TTL) =>
            /\ ret[t].errno = 0
            /\ ret[t].val = fillAttr(seen[t].data)
            /\ calls[t] = 0

\* a Getattr of the root answered from the entry an earlier Getattr stored
\* exactly TTL before
C1_Witness ==
    \E t \in Threads :
        /\ pc[t] = "done" /\ op[t] = "Getattr" /\ arg[t].path = Slash
        /\ seen[t].has /\ seen[t].age = TTL
        /\ ret[t].errno = 0 /\ calls[t] = 0
        /\ ret[t].val.Size = Uint64(seen[t].data.FileMetadata.Size)

\* C6: when the Stat of a Getattr or a Lookup fails, the callback ends there
\* and the cache is as it was: the step that receives the failure changes
\* no entry, and neither do the callback's steps before it.
C6_FailureKeepsCache ==
    [][\A t \in Threads :
         op[t] \in {"Getattr", "Lookup"} =>
            /\ (CallReturns(t) /\ Failed(ret'[t].resp)) =>
                    (pc'[t] = "done" /\ entries' = entries)
            /\ (pc[t] \in {"rlock", "rlocked"} /\ pc'[t] # pc[t]) => entries' = entries]_vars

\* a Getattr failed with ENOENT and the expired entry of its path is still
\* in the map
C6_Witness ==
    \E t \in Threads :
        /\ pc[t] = "done" /\ op[t] = "Getattr"
        /\ ret[t].errno = ENOENT
        /\ arg[t].path \in DOMAIN entries

\* C7: when the remote side answers the Stat of a Getattr miss, a Lookup or
\* an Open with status 404, the callback returns ENOENT and the cache holds
\* no live entry for the path afterwards, so that a later Getattr on the path
\* goes to the remote side.
C7_NotFound ==
    [][\A t \in Threads :
         (op[t] \in {"Getattr", "Lookup", "Open"} /\ CallReturns(t)
            /\ NotFound(ret'[t].resp)) =>
                /\ pc'[t] = "done"
                /\ ret'[t].errno = ENOENT
                /\ Get(arg[t].path)' = Nil]_vars

\* the bytes of a content value as the remote side sent them
ContentLen(content) == Len(content.val)

\* C8: a Read whose Retrieve succeeds and whose offset is at or past the end
\* of the content returns zero bytes with errno 0.
C8_ReadPastEnd ==
    \A t \in Threads :
        (/\ op[t] = "Read" /\ pc[t] \in {"done", "panic"}
         /\ ~Failed(ret[t].resp)
         /\ arg[t].off >= ContentLen(ret[t].resp.data)) =>
            (pc[t] = "done" /\ ret[t].errno = 0 /\ ret[t].val = <<>>)

\* C9: no callback issues more than one remote call, and the step that
\* receives a failed call ends the callback with the translated errno.
C9_NoRetry ==
    [][\A t \in Threads :
         /\ calls'[t] <= 1
         /\ (CallReturns(t) /\ Failed(ret'[t].resp)) =>
                /\ pc'[t] = "done"
                /\ calls'[t] = calls[t]
                /\ ret'[t].err # Nil
                /\ ret'[t].errno = ErrnoTable(ret'[t].err)
                /\ ret'[t].errno # 0]_vars

\* a Read has returned EISDIR after its one Retrieve
C9_Witness ==
    \E t \in Threads :
        /\ pc[t] = "done" /\ op[t] = "Read"
        /\ calls[t] = 1
        /\ ret[t].errno = EISDIR

\* the step in which goroutine t runs the c.Set of its callback
SetStep(t) == pc[t] = "locked" /\ pc'[t] = "done"

\* C11: Getattr callbacks that missed the cache each issue their own Stat
\* and each write the cache: the Set of a Getattr stores, whole, the
\* snapshot that callback fetched itself (whatever entry another callback
\* wrote before), the callback returns the attributes of that snapshot, and
\* no step other than a Set changes the map, so that the entry left at the
\* end is the snapshot of the Set that ran last.
C11_LastWriterWins ==
    [][/\ \A t \in Threads :
            (op[t] = "Getattr" /\ SetStep(t)) =>
                /\ calls[t] = 1
                /\ entries'[arg[t].path] = CacheEntry(ret[t].resp.data, now)
                /\ \A p \in DOMAIN entries \ {arg[t].path} :
                       p \in DOMAIN entries' /\ entries'[p] = entries[p]
                /\ ret'[t].errno = 0
                /\ ret'[t].val = fillAttr(ret[t].resp.data)
       /\ (\A t \in Threads : ~SetStep(t)) => entries' = entries]_vars

\* two Getattr of the root both missed and fetched different snapshots; each
\* returned its own, and the map holds one of the two
C11_Witness ==
    \E t \in Threads : \E u \in Threads \ {t} :
        /\ pc[t] = "done" /\ op[t] = "Getattr" /\ calls[t] = 1 /\ ret[t].errno = 0
        /\ pc[u] = "done" /\ op[u] = "Getattr" /\ calls[u] = 1 /\ ret[u].errno = 0
        /\ arg[t].path = Slash /\ arg[u].path = Slash
        /\ ret[t].resp.data # ret[u].resp.data
        /\ ret[t].val # ret[u].val
        /\ entries[Slash].data = ret[u].resp.data

\* the round trip brought back a response whose status is not 200
NonSuccess(resp) == resp # Nil /\ ~resp.transport /\ resp.status # 200

\* C12: for every response whose status is not 200 the client returns an
\* API error carrying that status (and the body's error code when it has
\* one); only a round trip without a response, or a 200 whose envelope is
\* malformed, gives an error without a status.
C12_StructuredError ==
    [][\A t \in Threads :
         CallReturns(t) =>
            /\ NonSuccess(ret'[t].resp) =>
                  /\ ret'[t].err # Nil
                  /\ ret'[t].err.api
                  /\ ret'[t].err.StatusCode = ret'[t].resp.status
                  /\ ret'[t].resp.json => ret'[t].err.ErrorCode = ret'[t].resp.code
            /\ (Failed(ret'[t].resp) /\ ~NonSuccess(ret'[t].resp)) =>
                  (ret'[t].err # Nil /\ ~ret'[t].err.api)]_vars

\* the step with which the callback of goroutine t goes on after its remote
\* call
Resume(t) ==
    \/ ReaddirList(t) \/ GetattrStat(t) \/ LookupStat(t) \/ OpenStat(t)
    \/ ReadRetrieve(t)

\* C13: every callback returns: no callback ends without returning, a
\* callback whose remote call is in flight can always go on, and when the
\* host cancelled it (or the deadline passed) during the call, the call is
\* given up and the callback returns EIO without writing the cache.
C13_CancelReturns ==
    [][\A t \in Threads :
         /\ pc'[t] # "panic"
         /\ pc'[t] = "wait" => (ENABLED Resume(t))'
         /\ (CallReturns(t) /\ Aborted(t)) =>
                /\ pc'[t] = "done"
                /\ ret'[t].errno = EIO
                /\ entries' = entries]_vars

\* goroutine t holds the lock of the cache, or is queued for it
HoldsLock(t) == t \in muReaders \/ muWriter = t \/ t \in muPending

\* C14: no callback holds the lock of the metadata cache, shared or
\* exclusive, while its remote call is in flight.
C14_NoLockAcrossCall ==
    \A t \in Threads : pc[t] = "wait" => ~HoldsLock(t)

\* the Stat of a Getattr miss is in flight while the other goroutine holds
\* the write lock
C14_Witness ==
    \E t \in Threads : \E u \in Threads \ {t} :
        /\ pc[t] = "wait" /\ op[t] = "Getattr"
        /\ muWriter = u

\* the step in which goroutine t starts the callback o
Starts(t, o) == pc[t] = "idle" /\ op'[t] = o

\* the lock of the cache is as it was
LockUntouched == UNCHANGED <<muReaders, muWriter, muPending>>

\* C15: Lookup(name) on a node sends one Stat with the file_metadata hint
\* for the path getPath() + "/" + name without reading the cache, whatever
\* the cache holds; it never sends a second one; on success it stores the
\* fetched snapshot under that same path and returns a child whose mode
\* (file-type bit) is the one of the fetched snapshot.
C15_LookupFetches ==
    [][\A t \in Threads :
         /\ Starts(t, "Lookup") =>
               /\ pc'[t] = "wait"
               /\ calls'[t] = 1
               /\ arg'[t].pick = "file_metadata"
               /\ arg'[t].path = getPath(arg'[t].node) \o Slash \o arg'[t].name
               /\ entries' = entries
               /\ LockUntouched
         /\ op[t] = "Lookup" =>
               /\ pc'[t] \notin {"rlock", "rlocked"}
               /\ calls'[t] \in {0, 1}
         /\ (op[t] = "Lookup" /\ SetStep(t)) =>
               /\ entries'[arg[t].path] = CacheEntry(ret[t].resp.data, now)
               /\ ret'[t].errno = 0
               /\ ret'[t].val.Mode = parseStatMode(ret[t].resp.data)
               /\ (ret'[t].val.Mode = S_IFDIR + DirPerm) <=>
                     ("directory" \in {ret[t].resp.data.Type,
                                       ret[t].resp.data.FileMetadata.Type})]_vars

\* the first callback after the tree was browsed: a Lookup of a on the root
\* fetched a file snapshot although the cache held a live directory snapshot
\* under the same key, and replaced it
C15_Witness ==
    \E t \in Threads :
        /\ pc[t] = "done" /\ op[t] = "Lookup" /\ ret[t].errno = 0 /\ calls[t] = 1
        /\ started = 1 /\ now = 0 /\ handles # {}
        /\ arg[t].path = <<"/", "/", "a">>
        /\ ret[t].val.Mode = S_IFREG + FilePerm
        /\ entries[arg[t].path] = CacheEntry(FileStat, 0)

\* the node Lookup(name) creates under the node it is called on
Child(t) == Append(arg[t].node, arg[t].name)

\* C16: the key a successful Lookup writes is the path Getattr resolves for
\* the child node, for every parent including the root: right after the
\* Lookup's Set a Get of the child's resolved path finds the snapshot, so a
\* Getattr of the child within TTL is answered without a remote call.
C16_LookupKey ==
    [][\A t \in Threads :
         (op[t] = "Lookup" /\ SetStep(t)) =>
            /\ arg[t].path = getPath(Child(t))
            /\ Get(getPath(Child(t)))' = ret[t].resp.data]_vars

\* the raw entries the List of a finished Readdir brought back
Listed(t) == ret[t].resp.data

\* C17: the inode number is a function of the path alone: the number Readdir
\* reports for the listing entry whose full path is q is the number Lookup
\* gives the child whose resolved path is q, for every parent including the
\* root.
C17_SameIno ==
    \A t \in Threads : \A u \in Threads :
        (/\ pc[t] = "done" /\ op[t] = "Readdir" /\ ret[t].errno = 0
         /\ pc[u] = "done" /\ op[u] = "Lookup" /\ ret[u].errno = 0) =>
            \A i \in 1..Len(Listed(t)) :
                Listed(t)[i].Path = getPath(Child(u)) =>
                    ret[t].val[i].Ino = ret[u].val.Ino

\* files of the remote side, and the bytes of one from offset off, at most
\* size of them
RemoteFiles == {<<"a", "b">>, <<"x", "a", "b">>}

Ranged(file, off, size) ==
    SubSeq(file, off + 1, IF off + size < Len(file) THEN off + size ELSE Len(file))

\* the Retrieve of goroutine t was answered with the requested range of a
\* remote file, one byte at least
RangeHonoured(t) ==
    /\ ~Failed(ret[t].resp)
    /\ ret[t].resp.data.kind = "string"
    /\ \E file \in RemoteFiles :
         /\ arg[t].off < Len(file)
         /\ ret[t].resp.data.val = Ranged(file, arg[t].off, arg[t].size)

\* C18: when the remote side answers a Read with the k > 0 bytes of the file
\* that start at the requested offset (k at most the requested length), Read
\* returns exactly those bytes, whatever the offset.
C18_ReadRange ==
    \A t \in Threads :
        (op[t] = "Read" /\ pc[t] \in {"done", "panic"} /\ RangeHonoured(t)) =>
            /\ pc[t] = "done"
            /\ ret[t].errno = 0
            /\ ret[t].val = ret[t].resp.data.val

\* the callbacks that go around the cache
Uncached == {"Readdir", "Open", "Read"}

\* goroutine t takes a step
Steps(t) == pc'[t] # pc[t] \/ arg'[t] # arg[t]

\* C19: Readdir, Open and Read neither read nor write the metadata cache,
\* whether their remote call succeeds or fails: none of their steps touches
\* the map or its lock; Open sends its Stat (no hint) whatever the cache
\* holds; the map changes only in the Set of a Getattr that missed and
\* fetched, and in the Set of a Lookup that fetched.
C19_CacheUntouched ==
    [][/\ \A t \in Threads :
            /\ (Steps(t) /\ (op[t] \in Uncached \/ op'[t] \in Uncached)) =>
                  /\ entries' = entries
                  /\ LockUntouched
                  /\ pc'[t] \in {"wait", "done", "idle", "panic"}
            /\ Starts(t, "Open") =>
                  /\ pc'[t] = "wait"
                  /\ calls'[t] = 1
                  /\ arg'[t].pick = ""
       /\ entries' # entries =>
            \E u \in Threads :
                /\ op[u] \in {"Getattr", "Lookup"}
                /\ SetStep(u)
                /\ calls[u] = 1
                /\ ~Failed(ret[u].resp)]_vars

\* an Open succeeded after its one Stat although the cache held a live
\* entry for the path, and the entry is the one stored at mount time 0
C19_Witness ==
    \E t \in Threads :
        /\ pc[t] = "done" /\ op[t] = "Open" /\ ret[t].errno = 0 /\ calls[t] = 1
        /\ Get(arg[t].path) # Nil
        /\ entries[arg[t].path].timestamp = 0
        /\ arg[t].path \in handles

\* the result of a finished Getattr is fresh: fetched by the callback
\* itself, or read from an entry set at most TTL before
Fresh(t) ==
    \/ /\ calls[t] = 1
       /\ ~Failed(ret[t].resp)
       /\ ret[t].val = fillAttr(ret[t].resp.data)
    \/ /\ calls[t] = 0
       /\ seen[t].has
       /\ seen[t].age <= TTL
       /\ ret[t].val = fillAttr(seen[t].data)

\* C20: a Getattr that succeeds returns a snapshot it fetched itself or one
\* that was set no more than TTL before the callback read it; when the entry
\* is older the callback fetches, and if the fetch fails it returns the
\* error and no attributes; the cache check changes no entry, so a hit does
\* not extend the entry's life.
C20_BoundedStaleness ==
    [][\A t \in Threads :
         /\ (pc'[t] = "done" /\ op'[t] = "Getattr") =>
               /\ ret'[t].errno = 0 => Fresh(t)'
               /\ (seen'[t].has /\ seen'[t].age > TTL) => calls'[t] = 1
               /\ ret'[t].errno # 0 =>
                     (Failed(ret'[t].resp) /\ ret'[t].val = Nil)
         /\ (op[t] = "Getattr" /\ pc[t] = "rlocked") =>
               (entries' = entries /\ lastSet' = lastSet)]_vars

\* a Getattr found the entry of its path expired, its Stat failed, and it
\* returned EIO; the expired entry is still in the map with its old time
C20_Witness ==
    \E t \in Threads :
        /\ pc[t] = "done" /\ op[t] = "Getattr" /\ calls[t] = 1
        /\ seen[t].has /\ seen[t].age > TTL
        /\ ret[t].errno = EIO /\ ret[t].val = Nil
        /\ entries[arg[t].path].timestamp = now - seen[t].age

(***************************************************************************)
(* The attribute conversions called on their own (SpecConv)                *)
(***************************************************************************)

\* permissions strings of the remote side
Permissions == {"rwxr-xr-x", "rw-r--r--", "rwx------", "rw-------", "rwxrwxrwx", ""}

\* the arguments of parseFileMode: an entry's permissions and type code
FileModeInputs ==
    {[permissions |-> p, fileType |-> ft] :
        p \in Permissions, ft \in {"d", "f", "l", "-", "", "D", "directory"}}

\* the snapshots parseStatMode and fillAttr are given
StatInputs ==
    {StatResponse(top, FileMetadata(42, Ts2025, Ts1970, TsBad, mt, p)) :
        top \in {"", "file", "directory", "d"},
        mt \in {"", "file", "directory"},
        p \in Permissions}

\* timestamp strings with the instant each denotes: valid tells whether the
\* string is RFC3339, epoch its Unix seconds
TimeTable ==
    {[ts |-> <<>>,
      valid |-> FALSE, epoch |-> 0],
     [ts |-> <<"y", "e", "s", "t", "e", "r", "d", "a", "y">>,
      valid |-> FALSE, epoch |-> 0],
     \* 2025-01-01T00:00:00Z
     [ts |-> <<"2", "0", "2", "5", "-", "0", "1", "-", "0", "1", "T", "0", "0", ":", "0", "0", ":", "0", "0", "Z">>,
      valid |-> TRUE, epoch |-> 1735689600],
     \* 1970-01-01T00:00:00Z
     [ts |-> <<"1", "9", "7", "0", "-", "0", "1", "-", "0", "1", "T", "0", "0", ":", "0", "0", ":", "0", "0", "Z">>,
      valid |-> TRUE, epoch |-> 0],
     \* 1970-01-01T00:01:00Z
     [ts |-> <<"1", "9", "7", "0", "-", "0", "1", "-", "0", "1", "T", "0", "0", ":", "0", "1", ":", "0", "0", "Z">>,
      valid |-> TRUE, epoch |-> 60],
     \* 2025-11-17T19:26:40Z
     [ts |-> <<"2", "0", "2", "5", "-", "1", "1", "-", "1", "7", "T", "1", "9", ":", "2", "6", ":", "4", "0", "Z">>,
      valid |-> TRUE, epoch |-> 1763407600],
     \* 2025-01-01T00:00:00+02:00
     [ts |-> <<"2", "0", "2", "5", "-", "0", "1", "-", "0", "1", "T", "0", "0", ":", "0", "0", ":", "0", "0", "+", "0", "2", ":", "0", "0">>,
      valid |-> TRUE, epoch |-> 1735682400],
     \* 2025-01-01T00:00:00.5Z
     [ts |-> <<"2", "0", "2", "5", "-", "0", "1", "-", "0", "1", "T", "0", "0", ":", "0", "0", ":", "0", "0", ".", "5", "Z">>,
      valid |-> TRUE, epoch |-> 1735689600],
     \* 2024-02-29T12:00:00Z
     [ts |-> <<"2", "0", "2", "4", "-", "0", "2", "-", "2", "9", "T", "1", "2", ":", "0", "0", ":", "0", "0", "Z">>,
      valid |-> TRUE, epoch |-> 1709208000],
     [ts |-> <<"2", "0", "2", "3", "-", "0", "2", "-", "2", "9", "T", "1", "2", ":", "0", "0", ":", "0", "0", "Z">>,
      valid |-> FALSE, epoch |-> 0],
     [ts |-> <<"2", "0", "2", "5", "-", "1", "3", "-", "0", "1", "T", "0", "0", ":", "0", "0", ":", "0", "0", "Z">>,
      valid |-> FALSE, epoch |-> 0],
     [ts |-> <<"2", "0", "2", "5", "-", "0", "1", "-", "0", "1", " ", "0", "0", ":", "0", "0", ":", "0", "0", "Z">>,
      valid |-> FALSE, epoch |-> 0],
     [ts |-> <<"2", "0", "2", "5", "-", "0", "1", "-", "0", "1", "T", "0", "0", ":", "0", "0", ":", "0", "0">>,
      valid |-> FALSE, epoch |-> 0],
     [ts |-> <<"2", "0", "2", "5", "-", "0", "1", "-", "0", "1", "T", "2", "4", ":", "0", "0", ":", "0", "0", "Z">>,
      valid |-> FALSE, epoch |-> 0],
     \* 1969-12-31T23:59:59Z
     [ts |-> <<"1", "9", "6", "9", "-", "1", "2", "-", "3", "1", "T", "2", "3", ":", "5", "9", ":", "5", "9", "Z">>,
      valid |-> TRUE, epoch |-> -1],
     \* 1960-06-15T08:30:00Z
     [ts |-> <<"1", "9", "6", "0", "-", "0", "6", "-", "1", "5", "T", "0", "8", ":", "3", "0", ":", "0", "0", "Z">>,
      valid |-> TRUE, epoch |-> -301246200],
     \* 1970-01-01T00:00:00+01:00
     [ts |-> <<"1", "9", "7", "0", "-", "0", "1", "-", "0", "1", "T", "0", "0", ":", "0", "0", ":", "0", "0", "+", "0", "1", ":", "0", "0">>,
      valid |-> TRUE, epoch |-> -3600],
     \* 2000-01-01T00:00:00-05:00
     [ts |-> <<"2", "0", "0", "0", "-", "0", "1", "-", "0", "1", "T", "0", "0", ":", "0", "0", ":", "0", "0", "-", "0", "5", ":", "0", "0">>,
      valid |-> TRUE, epoch |-> 946702800],
     \* 2037-12-31T23:59:59Z
     [ts |-> <<"2", "0", "3", "7", "-", "1", "2", "-", "3", "1", "T", "2", "3", ":", "5", "9", ":", "5", "9", "Z">>,
      valid |-> TRUE, epoch |-> 2145916799],
     \* 1999-12-31T23:59:59Z
     [ts |-> <<"1", "9", "9", "9", "-", "1", "2", "-", "3", "1", "T", "2", "3", ":", "5", "9", ":", "5", "9", "Z">>,
      valid |-> TRUE, epoch |-> 946684799]}

\* the strings parseMonkTimestamp is given
TimeInputs == {row.ts : row \in TimeTable}

\* parseFileMode(permissions, fileType) is called
ConvertFileMode ==
    /\ pout = Nil
    /\ pin.fn = "parseFileMode"
    /\ pout' = [mode |-> parseFileMode(pin.x.permissions, pin.x.fileType)]
    /\ UNCHANGED <<now, entries, muReaders, muWriter, muPending, nodes, handles, pc, op,
                   arg, ret, calls, started, lastSet, seen, pin>>

\* parseStatMode(stat) and fillAttr(attr, stat) are called, as Lookup does
ConvertStat ==
    /\ pout = Nil
    /\ pin.fn = "fillAttr"
    /\ pout' = [mode |-> parseStatMode(pin.x), attr |-> fillAttr(pin.x)]
    /\ UNCHANGED <<now, entries, muReaders, muWriter, muPending, nodes, handles, pc, op,
                   arg, ret, calls, started, lastSet, seen, pin>>

\* parseMonkTimestamp(ts) is called
ConvertTime ==
    /\ pout = Nil
    /\ pin.fn = "parseMonkTimestamp"
    /\ pout' = [time |-> parseMonkTimestamp(pin.x)]
    /\ UNCHANGED <<now, entries, muReaders, muWriter, muPending, nodes, handles, pc, op,
                   arg, ret, calls, started, lastSet, seen, pin>>

InitConv ==
    /\ InitFrames
    /\ entries = NewMetadataCache
    /\ lastSet = entries
    /\ nodes = {<<>>}
    /\ handles = {}
    /\ pin \in {[fn |-> "parseFileMode", x |-> e] : e \in FileModeInputs}
            \cup {[fn |-> "fillAttr", x |-> e] : e \in StatInputs}
            \cup {[fn |-> "parseMonkTimestamp", x |-> e] : e \in TimeInputs}
    /\ pout = Nil

NextConv == ConvertFileMode \/ ConvertStat \/ ConvertTime

SpecConv == InitConv /\ [][NextConv]_vars

\* the snapshot with another permissions string
WithPermissions(stat, p) == [stat EXCEPT !.FileMetadata.Permissions = p]

\* directory bits and regular-file bits
DirMode == S_IFDIR + DirPerm
FileMode == S_IFREG + FilePerm

\* C21: mode bits depend on the type alone: a listing entry gets
\* S_IFDIR|0755 exactly when its type code is "d", a stat snapshot exactly
\* when its type or its file_metadata type is "directory", anything else
\* gets S_IFREG|0644, and the same input with any other permissions string
\* gets the same bits.
C21_ModeFromType ==
    /\ (pout # Nil /\ pin.fn = "parseFileMode") =>
          /\ pout.mode = (IF pin.x.fileType = "d" THEN DirMode ELSE FileMode)
          /\ \A p \in Permissions : parseFileMode(p, pin.x.fileType) = pout.mode
    /\ (pout # Nil /\ pin.fn = "fillAttr") =>
          LET dir == pin.x.Type = "directory" \/ pin.x.FileMetadata.Type = "directory"
          IN  /\ pout.mode = (IF dir THEN DirMode ELSE FileMode)
              /\ pout.attr.Mode = pout.mode
              /\ \A p \in Permissions :
                    /\ parseStatMode(WithPermissions(pin.x, p)) = pout.mode
                    /\ fillAttr(WithPermissions(pin.x, p)).Mode = pout.mode

\* a listing entry of type "d" whose permissions string grants the owner
\* alone has received S_IFDIR|0755
C21_Witness ==
    /\ pout # Nil
    /\ pin.fn = "parseFileMode"
    /\ pin.x.fileType = "d"
    /\ pin.x.permissions = "rwx------"
    /\ pout.mode = S_IFDIR + DirPerm

\* the unsigned 64-bit value u is the integer n
Uint64Is(u, n) == n >= 0 /\ u = Limbs(n)

\* C22: the timestamp conversion has a result for every string: 0 for an
\* empty or unparseable one, and for every RFC3339 string the Unix seconds
\* of its instant, instants before 1970 included.
C22_TimestampEpoch ==
    /\ (pout = Nil /\ pin.fn = "parseMonkTimestamp") => ENABLED ConvertTime
    /\ (pout # Nil /\ pin.fn = "parseMonkTimestamp") =>
          \A row \in TimeTable :
              row.ts = pin.x =>
                  IF row.valid THEN Uint64Is(pout.time, row.epoch)
                  ELSE Uint64Is(pout.time, 0)

====
